---- MODULE Spec2Model ----
(***************************************************************************)
(* Model of the HTML-to-PDF scripts of the repository.                     *)
(*                                                                         *)
(* Five scripts are modelled, named after the place they live in:          *)
(*   "part_000"   src/unnamed/part_000, generateExactPdf (inline markup)   *)
(*   "chrome"     src/unnamed/part_001:29-181, generateExactPdf            *)
(*                (markup read from a file, installed Chrome probed)       *)
(*   "simple"     src/unnamed/part_001:186-279, generatePdf                *)
(*   "mobile"     src/unnamed/part_001:283-351, generateExactPdf           *)
(*                (always-mobile emulation, no try/catch)                  *)
(*   "testpdf"    src/puppeteer_pdf_generator/testpdf.js, generatePdf      *)
(*                                                                         *)
(* Three specifications share the variables:                               *)
(*   Spec         one run of one script, one step per await point          *)
(*   SpecNorm     the markup normalisation, applied to bounded markups     *)
(*   SpecMeasure  the content-height measurement, applied to bounded       *)
(*                element lists, and again after an element is appended    *)
(*                                                                         *)
(* Text is a sequence of chunks; every chunk is a piece of text that no    *)
(* searched-for pattern can straddle, so that includes/indexOf/replace/    *)
(* substring on chunks agree with the same operations on characters.       *)
(* Lengths are kept in half pixels so that Math.ceil and parseInt are not  *)
(* the identity.                                                           *)
(***************************************************************************)
EXTENDS Integers, Sequences, FiniteSets, TLC

VARIABLES
    script,         \* which of the five scripts runs
    argv2,          \* process.argv[2]
    platform,       \* os.platform()
    pc,             \* the await point the script is at
    browser,        \* "none" | "open" | "closed"
    page,           \* TRUE once browser.newPage() resolved
    htmlContent,    \* markup handed to the normalisation
    pdfTitle,       \* title selected with the viewport width
    viewportWidth,  \* width selected for the viewport
    viewports,      \* the page.setViewport calls made so far
    finalHtmlContent, \* markup handed to page.setContent
    steps,          \* the awaited page operations completed, in order
    imagesTimedOut, \* the image wait was rejected (10 s timeout)
    elements,       \* the rendered elements the measurement scans
    bodyBottom,     \* document.body.getBoundingClientRect().bottom, half px
    contentHeight,  \* measured height, px
    pdf,            \* the page.pdf call that completed, or NoPdf
    stdout,         \* console.log lines
    stderr,         \* console.error lines and the runtime's own reports
    failedAt,       \* the step whose rejection ended the run, or "none"
    handlerRan,     \* the catch block of the script ran
    exitCode        \* process exit code, or NotExited

vars == << script, argv2, platform, pc, browser, page, htmlContent, pdfTitle,
           viewportWidth, viewports, finalHtmlContent, steps, imagesTimedOut,
           elements, bodyBottom, contentHeight, pdf, stdout, stderr, failedAt,
           handlerRan, exitCode >>

-----------------------------------------------------------------------------
(* Bounds of the model.                                                    *)

MaxPieces == 3      \* markup pieces in an input of SpecNorm
MaxElems == 2       \* elements in an input of SpecMeasure

-----------------------------------------------------------------------------
(* JavaScript values.                                                      *)

Undefined == [t |-> "undefined"]
NaN == [t |-> "NaN"]
Num(n) == [t |-> "number", v |-> n]
Str(s) == [t |-> "string", v |-> s]

\* ToBoolean, as used by || and by if (...)
Truthy(x) ==
    CASE x.t = "undefined" -> FALSE
      [] x.t = "NaN" -> FALSE
      [] x.t = "number" -> x.v # 0
      [] x.t = "string" -> x.v # <<>>
      [] OTHER -> TRUE

\* a || b
Or(a, b) == IF Truthy(a) THEN a ELSE b

\* a === b. NaN equals nothing, itself included.
StrictEq(a, b) ==
    /\ a.t = b.t
    /\ a.t # "NaN"
    /\ a.t \in {"number", "string"} => a.v = b.v

Digits == <<"0", "1", "2", "3", "4", "5", "6", "7", "8", "9">>
IsDigit(c) == \E i \in 1..10 : Digits[i] = c
DigitVal(c) == (CHOOSE i \in 1..10 : Digits[i] = c) - 1

RECURSIVE DigitPrefix(_, _)
\* Value of the longest run of decimal digits that cs starts with, after acc.
DigitPrefix(cs, acc) ==
    IF cs = <<>> \/ ~IsDigit(Head(cs)) THEN acc
    ELSE DigitPrefix(Tail(cs), 10 * acc + DigitVal(Head(cs)))

\* parseInt(cs, 10) of a string given as its characters: an optional sign,
\* then the leading digits; NaN when there is no digit.
ParseIntChars(cs) ==
    LET neg == cs # <<>> /\ Head(cs) = "-"
        body == IF cs # <<>> /\ Head(cs) \in {"-", "+"} THEN Tail(cs) ELSE cs
    IN  IF body = <<>> \/ ~IsDigit(Head(body)) THEN NaN
        ELSE IF neg THEN Num(0 - DigitPrefix(body, 0)) ELSE Num(DigitPrefix(body, 0))

\* parseInt(x, 10): the argument is converted to a string first; integers
\* print as themselves, undefined prints as "undefined".
ParseInt(x) ==
    CASE x.t = "number" -> x
      [] x.t = "string" -> ParseIntChars(x.v)
      [] OTHER -> NaN

-----------------------------------------------------------------------------
(* Text as sequences of chunks.                                            *)

\* s.includes(needle)
Includes(s, needle) ==
    \E i \in 1..(Len(s) - Len(needle) + 1) :
        SubSeq(s, i, i + Len(needle) - 1) = needle

\* s.indexOf(needle): 0-based, -1 when absent
IndexOf(s, needle) ==
    IF Includes(s, needle)
    THEN (CHOOSE i \in 1..(Len(s) - Len(needle) + 1) :
            /\ SubSeq(s, i, i + Len(needle) - 1) = needle
            /\ \A j \in 1..(i - 1) : SubSeq(s, j, j + Len(needle) - 1) # needle) - 1
    ELSE -1

\* s.substring(from, to) and s.substring(from), 0-based
Substring(s, from, to) == SubSeq(s, from + 1, to)
SubstringFrom(s, from) == SubSeq(s, from + 1, Len(s))

\* s.replace(needle, by) with a string pattern: the first occurrence only
Replace(s, needle, by) ==
    LET i == IndexOf(s, needle)
    IN  IF i = -1 THEN s
        ELSE Substring(s, 0, i) \o by \o SubstringFrom(s, i + Len(needle))

\* Number of occurrences of needle in s
Count(s, needle) ==
    Cardinality({i \in 1..(Len(s) - Len(needle) + 1) :
                    SubSeq(s, i, i + Len(needle) - 1) = needle})

-----------------------------------------------------------------------------
(* Markup normalisation ("Ensure HTML is complete").                       *)

ATTR == " class=\"x\""

HtmlOpen == <<"<html">>                     \* '<html'
HeadTag == <<"<head", ">">>                 \* '<head>'
HeadEnd == <<"</head>">>                    \* '</head>'
BodyTag == <<"<body", ">">>                 \* '<body>'
TitleTag == <<"<title", ">">>               \* '<title>'
MetaViewportOpen == <<"<meta name=\"viewport\"">>   \* '<meta name="viewport"'
metaViewportTag ==
    << "<meta name=\"viewport\"",
       " content=\"width=device-width, initial-scale=1.0, shrink-to-fit=no\"",
       ">" >>

MobileTitle == <<"Mobile View", " PDF">>
CustomTitle == <<"Custom View", " PDF">>
DesktopTitle == <<"Desktop View", " PDF">>

\* `<!DOCTYPE html><html><head></head><body>${html}</body></html>`
WrapFragment(html) ==
    <<"<!DOCTYPE html>", "<html", ">">> \o HeadTag \o HeadEnd \o BodyTag
        \o html \o <<"</body>", "</html>">>

EnsureHtml(html) ==
    IF ~Includes(html, HtmlOpen) THEN WrapFragment(html) ELSE html

EnsureHead(html) ==
    IF ~Includes(html, HeadTag)
    THEN Replace(html, BodyTag, HeadTag \o HeadEnd \o BodyTag)
    ELSE html

EnsureMetaViewport(html) ==
    IF ~Includes(html, MetaViewportOpen)
    THEN LET headEndIndex == IndexOf(html, HeadEnd)
         IN  IF headEndIndex # -1
             THEN Substring(html, 0, headEndIndex) \o metaViewportTag
                      \o SubstringFrom(html, headEndIndex)
             ELSE html
    ELSE html

EnsureTitle(html, title) ==
    LET htmlTitleContent == Replace(title, <<" PDF">>, <<>>)
    IN  IF ~Includes(html, TitleTag)
        THEN LET headStartTagIndex == IndexOf(html, HeadTag)
             IN  IF headStartTagIndex # -1
                 THEN Substring(html, 0, headStartTagIndex + Len(HeadTag))
                          \o TitleTag \o htmlTitleContent \o <<"</title>">>
                          \o SubstringFrom(html, headStartTagIndex + Len(HeadTag))
                 ELSE html
        ELSE html

\* finalHtmlContent of part_000 and of the Chrome-path script
NormaliseHtml(html, title) ==
    EnsureTitle(EnsureMetaViewport(EnsureHead(EnsureHtml(html))), title)

-----------------------------------------------------------------------------
(* Content-height measurement ("Measure exact content height").            *)

\* Math.ceil of h half pixels, in pixels
CeilHalf(h) == 0 - ((0 - h) \div 2)

\* The elements the measurement loop skips
IsHidden(el) ==
    \/ el.display = "none"
    \/ el.visibility = "hidden"
    \/ el.opacity = "0"

hasVisibleContent(el) ==
    \/ el.text
    \/ (el.tagName = "IMG" /\ el.complete)
    \/ (el.backgroundImage # "" /\ el.backgroundImage # "none")

RECURSIVE ScanElements(_, _, _)
\* The loop over allElements: acc = [maxBottom, lastVisibleElement]; 0 for
\* lastVisibleElement stands for null, i for the i-th element scanned.
ScanElements(els, i, acc) ==
    IF i > Len(els) THEN acc
    ELSE LET el == els[i]
         IN  IF IsHidden(el) THEN ScanElements(els, i + 1, acc)
             ELSE IF hasVisibleContent(el) /\ el.bottom > acc.maxBottom
                  THEN ScanElements(els, i + 1,
                                    [maxBottom |-> el.bottom, lastVisibleElement |-> i])
                  ELSE ScanElements(els, i + 1, acc)

\* parseInt(style.marginBottom, 10) || 0
MarginBottomPx(el) == Or(ParseInt(Str(el.marginBottom)), Num(0)).v

\* The measurement without the bottom margin of the last visible element
MeasureHeightNoMargin(els, body) ==
    LET scan == ScanElements(els, 1, [maxBottom |-> 0, lastVisibleElement |-> 0])
    IN  IF scan.lastVisibleElement # 0
        THEN CeilHalf(scan.maxBottom)
        ELSE CeilHalf(body)

\* The value page.evaluate returns, in pixels; bottoms are in half pixels.
MeasureHeight(els, body) ==
    LET scan == ScanElements(els, 1, [maxBottom |-> 0, lastVisibleElement |-> 0])
    IN  IF scan.lastVisibleElement # 0
        THEN CeilHalf(scan.maxBottom + 2 * MarginBottomPx(els[scan.lastVisibleElement]))
        ELSE CeilHalf(body)

-----------------------------------------------------------------------------
(* Inputs of a run.                                                        *)

Scripts == {"part_000", "chrome", "simple", "mobile", "testpdf"}

\* Scripts with the detailed pipeline (viewType, normalisation, image wait,
\* element scan, viewport resize)
Detailed == {"part_000", "chrome"}

Fragment == <<"<p>Hello</p>">>
FullDocument ==
    <<"<html", ">">> \o HeadTag \o TitleTag \o <<"Mail", "</title>">> \o HeadEnd
        \o BodyTag \o <<"<p>Hello</p>", "</body>", "</html>">>

HtmlContents == {Undefined, Str(Fragment), Str(FullDocument)}
HtmlPaths == {Undefined, Str(<<"missing.html">>), Str(<<"page.html">>)}
DeviceWidths ==
    { Undefined, Num(320), Num(600), Num(610),
      Str(<<"6", "0", "0">>), Str(<<"a", "b", "c">>) }
ViewTypes == {Undefined, Str(<<"desktop">>), Str(<<"mobile">>)}

\* The files fs.existsSync finds, and what fs.readFileSync returns for them
ExistingFiles == {<<"page.html">>}
FileContent(path) == Fragment

ArgObjects ==
    [ htmlContent : HtmlContents, htmlPath : HtmlPaths, outputPath : {Str(<<"out.pdf">>)},
      deviceWidth : DeviceWidths, viewType : ViewTypes ]

NoArgs ==
    [ htmlContent |-> Undefined, htmlPath |-> Undefined, outputPath |-> Undefined,
      deviceWidth |-> Undefined, viewType |-> Undefined ]

\* process.argv[2]: absent, text that is not JSON, or the JSON text of an object
Argv2s ==
    {[kind |-> "absent", obj |-> NoArgs], [kind |-> "malformed", obj |-> NoArgs]}
        \cup {[kind |-> "object", obj |-> o] : o \in ArgObjects}

\* os.platform() and whether Chrome is at its default location
Platforms ==
    { [os |-> "win32", chrome |-> TRUE], [os |-> "win32", chrome |-> FALSE],
      [os |-> "darwin", chrome |-> TRUE], [os |-> "linux", chrome |-> TRUE] }

\* JSON.parse as a parser that returns an empty object for text it cannot read
JSONparseLenient(text) == [ok |-> TRUE, value |-> text.obj]

\* JSON.parse(process.argv[2]): throws a SyntaxError unless the text is JSON
JSONparse(text) ==
    IF text.kind = "object" THEN [ok |-> TRUE, value |-> text.obj]
    ELSE [ok |-> FALSE, value |-> NoArgs]

args == JSONparse(argv2).value

-----------------------------------------------------------------------------
(* Program constants.                                                      *)

fallbackDeviceWidth == 610      \* args.deviceWidth || 610
defaultDesktopWidth == 600
mobileWidth == 360
pdfWidth == 375                 \* testpdf.js, "Mobile view width"
PxPerInch == 96

-----------------------------------------------------------------------------
(* Control flow of the five scripts.                                       *)

\* The detailed pipeline with the font wait ahead of the image wait
DetailedFlowFontsFirst ==
    << "launch", "newPage", "setViewport", "setContent", "emulateMediaType",
       "fonts", "waitForFunction", "settle", "measure", "resize", "pdf" >>

DetailedFlow ==
    << "launch", "newPage", "setViewport", "setContent", "emulateMediaType",
       "waitForFunction", "fonts", "settle", "measure", "resize", "pdf" >>

\* The await points of each script, in program order
Flow(sc) ==
    CASE sc = "part_000" -> <<"parse">> \o DetailedFlow
      [] sc = "chrome" -> <<"parse", "findChrome">> \o DetailedFlow
      [] sc = "mobile" ->
            << "parse", "launch", "newPage", "setViewport", "setContent", "fonts",
               "measure", "addStyleTag", "pdf", "close" >>
      [] OTHER ->
            << "parse", "launch", "newPage", "setViewport", "setContent", "fonts",
               "addStyleTag", "measure", "pdf" >>

\* The step after `step`; "exited" after the last one
NextStep(sc, step) ==
    LET f == Flow(sc)
        i == CHOOSE k \in 1..Len(f) : f[k] = step
    IN  IF i = Len(f) THEN "exited" ELSE f[i + 1]

\* Whether `step` runs inside the script's try block
InTry(sc, step) ==
    CASE sc \in Detailed -> step # "parse"
      [] sc = "mobile" -> FALSE
      [] OTHER -> TRUE

\* What the catch block writes with console.error
HandlerMessage(sc) ==
    CASE sc \in Detailed -> "Error generating PDF:"
      [] sc = "simple" -> "Error generating PDF with Puppeteer:"
      [] OTHER -> "Puppeteer error:"

SuccessMessage(sc) ==
    CASE sc \in Detailed -> "PDF generated successfully"
      [] sc = "simple" -> "PDF generated successfully"
      [] sc = "mobile" -> "Exact-size PDF generated"
      [] OTHER -> "Mobile single-page PDF generated"

\* An exception or rejection at `step`. Inside try: the catch block logs it
\* and calls process.exit(1), which ends the process before the finally block
\* can run. Outside try: the promise of the script's function is rejected
\* with nothing attached to it; the runtime reports the unhandled rejection
\* on the error stream and ends the process with code 1.
Throw(step) ==
    /\ pc' = "exited"
    /\ failedAt' = step
    /\ exitCode' = Num(1)
    /\ IF InTry(script, step)
       THEN /\ stderr' = Append(stderr, HandlerMessage(script))
            /\ handlerRan' = TRUE
       ELSE /\ stderr' = Append(stderr, "Uncaught")
            /\ UNCHANGED handlerRan

\* console.error(message); process.exit(1) outside the catch block
ExitWithError(step, message) ==
    /\ pc' = "exited"
    /\ failedAt' = step
    /\ exitCode' = Num(1)
    /\ stderr' = Append(stderr, message)
    /\ UNCHANGED handlerRan

\* The awaited operation `step` resolved
Resolve(step) ==
    /\ pc' = NextStep(script, step)
    /\ steps' = Append(steps, step)
    /\ UNCHANGED <<stderr, failedAt, handlerRan, exitCode>>

env == <<script, argv2, platform>>
rendering == <<elements, bodyBottom, contentHeight>>
selection == <<pdfTitle, viewportWidth, viewports>>

-----------------------------------------------------------------------------
(* The steps of a run.                                                     *)

\* JSON.parse(process.argv[2]) and the reads of the fields; in the Chrome-path
\* script also the check and the read of the input file.
Parse ==
    /\ pc = "parse"
    /\ LET r == JSONparse(argv2)
       IN  IF ~r.ok
           THEN Throw("parse") /\ UNCHANGED <<htmlContent, steps>>
           ELSE IF script = "chrome"
           THEN IF ~Truthy(r.value.htmlPath) \/ r.value.htmlPath.v \notin ExistingFiles
                THEN /\ ExitWithError("parse",
                            "HTML input file path is missing or does not exist.")
                     /\ UNCHANGED <<htmlContent, steps>>
                ELSE /\ htmlContent' = Str(FileContent(r.value.htmlPath.v))
                     /\ Resolve("parse")
           ELSE /\ htmlContent' = r.value.htmlContent
                /\ Resolve("parse")
    /\ UNCHANGED <<env, browser, page, selection, finalHtmlContent, imagesTimedOut,
                   rendering, pdf, stdout>>

\* getChromeExecutablePath()
FindChrome ==
    /\ pc = "findChrome"
    /\ IF platform.os \in {"win32", "darwin"} /\ platform.chrome
       THEN Resolve("findChrome")
       ELSE /\ ExitWithError("findChrome",
                    "Google Chrome could not be found in its default location.")
            /\ UNCHANGED steps
    /\ UNCHANGED <<env, browser, page, htmlContent, selection, finalHtmlContent,
                   imagesTimedOut, rendering, pdf, stdout>>

\* browser = await puppeteer.launch(...)
Launch ==
    /\ pc = "launch"
    /\ \/ Resolve("launch") /\ browser' = "open"
       \/ Throw("launch") /\ UNCHANGED <<browser, steps>>
    /\ UNCHANGED <<env, page, htmlContent, selection, finalHtmlContent,
                   imagesTimedOut, rendering, pdf, stdout>>

\* page = await browser.newPage()
NewPage ==
    /\ pc = "newPage"
    /\ \/ Resolve("newPage") /\ page' = TRUE
       \/ Throw("newPage") /\ UNCHANGED <<page, steps>>
    /\ UNCHANGED <<env, browser, htmlContent, selection, finalHtmlContent,
                   imagesTimedOut, rendering, pdf, stdout>>

\* const deviceWidth = args.deviceWidth || 610; const viewType = args.viewType || 'desktop'
deviceWidth == Or(args.deviceWidth, Num(fallbackDeviceWidth))
viewType == Or(args.viewType, Str(<<"desktop">>))

\* The selection with its first two tests in the other order
SelectViewportWidthFirst(vt, dw) ==
    IF ~StrictEq(dw, Num(defaultDesktopWidth))
    THEN [width |-> ParseInt(dw), title |-> CustomTitle]
    ELSE IF StrictEq(vt, Str(<<"mobile">>))
    THEN [width |-> Num(mobileWidth), title |-> MobileTitle]
    ELSE [width |-> Num(defaultDesktopWidth), title |-> DesktopTitle]

\* "Determine viewport width": the width and the title for a view type and a
\* device width
SelectViewport(vt, dw) ==
    IF StrictEq(vt, Str(<<"mobile">>))
    THEN [width |-> Num(mobileWidth), title |-> MobileTitle]
    ELSE IF ~StrictEq(dw, Num(defaultDesktopWidth))
    THEN [width |-> ParseInt(dw), title |-> CustomTitle]
    ELSE [width |-> Num(defaultDesktopWidth), title |-> DesktopTitle]

\* isMobile: (viewType === 'mobile')
IsMobileView(vt) == StrictEq(vt, Str(<<"mobile">>))

\* The argument of the first page.setViewport call of each script
InitialViewport(sc) ==
    CASE sc \in Detailed ->
            [ width |-> SelectViewport(viewType, deviceWidth).width, height |-> Num(800),
              deviceScaleFactor |-> 2, isMobile |-> IsMobileView(viewType) ]
      [] sc = "simple" ->
            [ width |-> ParseInt(args.deviceWidth), height |-> Num(1080),
              deviceScaleFactor |-> 1, isMobile |-> FALSE ]
      [] sc = "mobile" ->
            [ width |-> ParseInt(args.deviceWidth), height |-> Num(800),
              deviceScaleFactor |-> 1, isMobile |-> TRUE ]
      [] OTHER ->
            [ width |-> Num(pdfWidth), height |-> Num(1080),
              deviceScaleFactor |-> 1, isMobile |-> FALSE ]

\* The width selection and the first await page.setViewport(...)
SetViewport ==
    /\ pc = "setViewport"
    /\ IF script \in Detailed
       THEN /\ viewportWidth' = SelectViewport(viewType, deviceWidth).width
            /\ pdfTitle' = SelectViewport(viewType, deviceWidth).title
       ELSE UNCHANGED <<viewportWidth, pdfTitle>>
    /\ \/ /\ Resolve("setViewport")
          /\ viewports' = Append(viewports, InitialViewport(script))
       \/ Throw("setViewport") /\ UNCHANGED <<viewports, steps>>
    /\ UNCHANGED <<env, browser, page, htmlContent, finalHtmlContent,
                   imagesTimedOut, rendering, pdf, stdout>>

\* The normalisation (detailed scripts) and await page.setContent(...).
\* htmlContent.includes throws a TypeError when htmlContent is not a string.
SetContent ==
    /\ pc = "setContent"
    /\ IF script \in Detailed /\ htmlContent.t # "string"
       THEN Throw("setContent") /\ UNCHANGED <<finalHtmlContent, steps>>
       ELSE /\ finalHtmlContent' =
                    IF script \in Detailed
                    THEN Str(NormaliseHtml(htmlContent.v, pdfTitle))
                    ELSE htmlContent
            /\ \/ Resolve("setContent")
               \/ Throw("setContent") /\ UNCHANGED steps
    /\ UNCHANGED <<env, browser, page, htmlContent, selection, imagesTimedOut,
                   rendering, pdf, stdout>>

\* An awaited page operation that changes nothing the model keeps
PageOp(step) ==
    /\ pc = step
    /\ \/ Resolve(step)
       \/ Throw(step) /\ UNCHANGED steps
    /\ UNCHANGED <<env, browser, page, htmlContent, selection, finalHtmlContent,
                   imagesTimedOut, rendering, pdf, stdout>>

\* await page.emulateMediaType('screen')
EmulateMediaType == PageOp("emulateMediaType")

\* The image wait without its .catch: the timeout is thrown into the try block
WaitForImagesUncaught ==
    /\ pc = "waitForFunction"
    /\ \/ Resolve("waitForFunction") /\ UNCHANGED imagesTimedOut
       \/ Throw("waitForFunction") /\ imagesTimedOut' = TRUE /\ UNCHANGED steps
    /\ UNCHANGED <<env, browser, page, htmlContent, selection, finalHtmlContent,
                   rendering, pdf, stdout>>

\* await page.waitForFunction(..., { timeout: 10000 }).catch(() => console.log(...))
WaitForImages ==
    /\ pc = "waitForFunction"
    /\ \/ Resolve("waitForFunction") /\ UNCHANGED <<imagesTimedOut, stdout>>
       \/ /\ Resolve("waitForFunction")
          /\ imagesTimedOut' = TRUE
          /\ stdout' = Append(stdout, "Some images might not have loaded within timeout.")
    /\ UNCHANGED <<env, browser, page, htmlContent, selection, finalHtmlContent,
                   rendering, pdf>>

\* await page.evaluateHandle('document.fonts.ready'), page.evaluate(() => document.fonts.ready)
FontsReady == PageOp("fonts")

\* await new Promise(resolve => setTimeout(resolve, 500))
Settle ==
    /\ pc = "settle"
    /\ Resolve("settle")
    /\ UNCHANGED <<env, browser, page, htmlContent, selection, finalHtmlContent,
                   imagesTimedOut, rendering, pdf, stdout>>

\* await page.addStyleTag(...)
AddStyleTag == PageOp("addStyleTag")

-----------------------------------------------------------------------------
(* Rendered documents.                                                     *)

\* A visible element with text: bottom edge in half pixels, computed
\* margin-bottom as the characters of the style value
TextEl(bottom, marginBottom) ==
    [ display |-> "block", visibility |-> "visible", opacity |-> "1", text |-> TRUE,
      tagName |-> "P", complete |-> FALSE, backgroundImage |-> "none",
      bottom |-> bottom, marginBottom |-> marginBottom ]

Px0 == <<"0", "p", "x">>
Px20 == <<"2", "0", ".", "5", "p", "x">>
PxNeg5 == <<"-", "5", "p", "x">>

\* Elements that do not count: hidden ones, and visible ones with no text,
\* no loaded image and no background image
SkippedElements ==
    { [TextEl(60, Px20) EXCEPT !.display = "none"],
      [TextEl(60, Px20) EXCEPT !.visibility = "hidden"],
      [TextEl(60, Px20) EXCEPT !.opacity = "0"],
      [TextEl(60, Px20) EXCEPT !.text = FALSE, !.tagName = "IMG"],
      [TextEl(60, Px20) EXCEPT !.text = FALSE, !.tagName = "DIV"] }

\* Visible elements with content
ContentElements ==
    {TextEl(b, m) : b \in {-1, 0, 21, 40}, m \in {Px0, Px20, PxNeg5}}
        \cup { [TextEl(31, Px0) EXCEPT !.text = FALSE, !.tagName = "IMG", !.complete = TRUE],
               [TextEl(50, Px0) EXCEPT !.text = FALSE, !.tagName = "DIV",
                                       !.backgroundImage = "url(a.png)"] }

RenderedElements == ContentElements \cup SkippedElements

BodyBottoms == {0, 33, 80}

RECURSIVE ListsUpTo(_, _)
\* The sequences of at most n members of S
ListsUpTo(S, n) ==
    IF n = 0 THEN {<<>>}
    ELSE LET shorter == ListsUpTo(S, n - 1)
         IN  shorter \cup {Append(l, x) : l \in shorter, x \in S}

\* The layouts a run may find after loading its markup
RunDoms ==
    { [els |-> <<>>, body |-> 33],
      [els |-> <<TextEl(40, Px20)>>, body |-> 80],
      [els |-> <<TextEl(21, Px0), [TextEl(60, Px20) EXCEPT !.display = "none"]>>,
       body |-> 33] }

\* scrollHeight, offsetHeight, clientHeight of body and html (px) and the last
\* element's bottom plus scrollY (half px)
ScrollMetrics ==
    { [bodyScroll |-> 100, bodyOffset |-> 90, htmlClient |-> 120, htmlScroll |-> 100,
       htmlOffset |-> 100, lastBottom |-> 181],
      [bodyScroll |-> 40, bodyOffset |-> 40, htmlClient |-> 30, htmlScroll |-> 40,
       htmlOffset |-> 40, lastBottom |-> 85] }

SetMax(S) == CHOOSE x \in S : \A y \in S : y <= x

\* The heights the scripts without the element scan compute
ScrollHeight(sc, m) ==
    CASE sc = "simple" ->
            SetMax({m.bodyScroll, m.bodyOffset, m.htmlScroll, m.htmlOffset})
      [] sc = "mobile" ->
            SetMax({m.bodyScroll, m.bodyOffset, m.htmlClient, m.htmlScroll, m.htmlOffset})
      [] OTHER ->
            CeilHalf(SetMax({2 * m.bodyScroll, 2 * m.bodyOffset, 2 * m.htmlClient,
                             2 * m.htmlScroll, 2 * m.htmlOffset, m.lastBottom}))

\* const contentHeight = await page.evaluate(...)
Measure ==
    /\ pc = "measure"
    /\ \/ /\ script \in Detailed
          /\ \E dom \in RunDoms :
                /\ elements' = dom.els
                /\ bodyBottom' = dom.body
                /\ contentHeight' = Num(MeasureHeight(dom.els, dom.body))
          /\ Resolve("measure")
       \/ /\ script \notin Detailed
          /\ \E m \in ScrollMetrics : contentHeight' = Num(ScrollHeight(script, m))
          /\ Resolve("measure")
          /\ UNCHANGED <<elements, bodyBottom>>
       \/ Throw("measure") /\ UNCHANGED <<rendering, steps>>
    /\ UNCHANGED <<env, browser, page, htmlContent, selection, finalHtmlContent,
                   imagesTimedOut, pdf, stdout>>

\* "Adjust viewport to match content height"
Resize ==
    /\ pc = "resize"
    /\ \/ /\ Resolve("resize")
          /\ viewports' = Append(viewports,
                [ width |-> viewportWidth, height |-> contentHeight,
                  deviceScaleFactor |-> 2, isMobile |-> IsMobileView(viewType) ])
       \/ Throw("resize") /\ UNCHANGED <<viewports, steps>>
    /\ UNCHANGED <<env, browser, page, htmlContent, pdfTitle, viewportWidth,
                   finalHtmlContent, imagesTimedOut, rendering, pdf, stdout>>

NoPdf == [path |-> Undefined, width |-> Undefined, height |-> Undefined]

\* A length: px / per, in `unit`
Length(px, per, unit) == [t |-> "length", px |-> px, per |-> per, unit |-> unit]

\* The page size page.pdf is called with
PdfCall(sc) ==
    CASE sc \in Detailed ->
            [ path |-> args.outputPath,
              width |-> Length(viewportWidth, PxPerInch, "in"),
              height |-> Length(contentHeight, PxPerInch, "in") ]
      [] sc = "simple" ->
            [ path |-> args.outputPath,
              width |-> Length(ParseInt(args.deviceWidth), 1, "px"),
              height |-> Length(contentHeight, 1, "px") ]
      [] sc = "mobile" ->
            [ path |-> args.outputPath, width |-> Undefined, height |-> Undefined ]
      [] OTHER ->
            [ path |-> args.outputPath,
              width |-> Length(Num(pdfWidth), 1, "px"),
              height |-> Length(contentHeight, 1, "px") ]

\* await page.pdf(...); then, except in the always-mobile script, the success
\* message and process.exit(0), which ends the process before the finally
\* block can run.
Pdf ==
    /\ pc = "pdf"
    /\ \/ /\ pdf' = PdfCall(script)
          /\ steps' = Append(steps, "pdf")
          /\ IF script = "mobile"
             THEN /\ pc' = "close"
                  /\ UNCHANGED <<stdout, exitCode>>
             ELSE /\ stdout' = Append(stdout, SuccessMessage(script))
                  /\ exitCode' = Num(0)
                  /\ pc' = "exited"
          /\ UNCHANGED <<stderr, failedAt, handlerRan>>
       \/ Throw("pdf") /\ UNCHANGED <<pdf, steps, stdout>>
    /\ UNCHANGED <<env, browser, page, htmlContent, selection, finalHtmlContent,
                   imagesTimedOut, rendering>>

\* await browser.close(); console.log(...) at the end of the always-mobile
\* script; the process then ends with code 0.
Close ==
    /\ pc = "close"
    /\ \/ /\ browser' = "closed"
          /\ steps' = Append(steps, "close")
          /\ stdout' = Append(stdout, SuccessMessage(script))
          /\ exitCode' = Num(0)
          /\ pc' = "exited"
          /\ UNCHANGED <<stderr, failedAt, handlerRan>>
       \/ Throw("close") /\ UNCHANGED <<browser, steps, stdout>>
    /\ UNCHANGED <<env, page, htmlContent, selection, finalHtmlContent,
                   imagesTimedOut, rendering, pdf>>

-----------------------------------------------------------------------------
(* Specification of a run.                                                 *)

Idle ==
    /\ browser = "none"
    /\ page = FALSE
    /\ viewportWidth = Undefined
    /\ viewports = <<>>
    /\ finalHtmlContent = Undefined
    /\ steps = <<>>
    /\ imagesTimedOut = FALSE
    /\ contentHeight = Undefined
    /\ pdf = NoPdf
    /\ stdout = <<>>
    /\ stderr = <<>>
    /\ failedAt = "none"
    /\ handlerRan = FALSE
    /\ exitCode = Undefined

Init ==
    /\ script \in Scripts
    /\ argv2 \in Argv2s
    /\ platform \in Platforms
    \* fields and settings a script never reads are held at one value
    /\ script = "chrome" => argv2.obj.htmlContent = Undefined
    /\ script # "chrome" => /\ argv2.obj.htmlPath = Undefined
                            /\ platform = [os |-> "linux", chrome |-> TRUE]
    /\ pc = "parse"
    /\ htmlContent = Undefined
    /\ pdfTitle = <<>>
    /\ elements = <<>>
    /\ bodyBottom = 0
    /\ Idle

Next ==
    \/ Parse
    \/ FindChrome
    \/ Launch
    \/ NewPage
    \/ SetViewport
    \/ SetContent
    \/ EmulateMediaType
    \/ WaitForImages
    \/ FontsReady
    \/ Settle
    \/ AddStyleTag
    \/ Measure
    \/ Resize
    \/ Pdf
    \/ Close

Spec == Init /\ [][Next]_vars

-----------------------------------------------------------------------------
(* Specification of the normalisation alone.                               *)

\* The pieces the input markups are made of: the tags the normalisation looks
\* for, with and without attributes, and some content
Pieces ==
    { <<"<html", ">">>,
      HeadTag, <<"<head", ATTR, ">">>, HeadEnd,
      BodyTag, <<"<body", ATTR, ">">>,
      TitleTag \o <<"Mail", "</title>">>, <<"<title", ATTR, ">", "Mail", "</title>">>,
      <<"<meta name=\"viewport\"", " content=\"width=600\"", ">">>,
      <<"<p>Hello</p>">> }

RECURSIVE Markups(_)
\* The markups of at most n pieces
Markups(n) ==
    IF n = 0 THEN {<<>>}
    ELSE LET shorter == Markups(n - 1)
         IN  shorter \cup {m \o piece : m \in shorter, piece \in Pieces}

InitNorm ==
    /\ script = "part_000"
    /\ argv2 = [kind |-> "absent", obj |-> NoArgs]
    /\ platform = [os |-> "linux", chrome |-> TRUE]
    /\ pc = "normalise"
    /\ htmlContent \in {Str(m) : m \in Markups(MaxPieces)}
    /\ pdfTitle \in {MobileTitle, CustomTitle, DesktopTitle}
    /\ elements = <<>>
    /\ bodyBottom = 0
    /\ Idle

\* "Ensure HTML is complete", "Add meta viewport", "Add title if missing"
Normalise ==
    /\ pc = "normalise"
    /\ finalHtmlContent' = Str(NormaliseHtml(htmlContent.v, pdfTitle))
    /\ pc' = "normalised"
    /\ UNCHANGED <<env, browser, page, htmlContent, selection, steps, imagesTimedOut,
                   rendering, pdf, stdout, stderr, failedAt, handlerRan, exitCode>>

NextNorm == Normalise

SpecNorm == InitNorm /\ [][NextNorm]_vars

-----------------------------------------------------------------------------
(* Specification of the measurement alone.                                 *)

InitMeasure ==
    /\ script = "part_000"
    /\ argv2 = [kind |-> "absent", obj |-> NoArgs]
    /\ platform = [os |-> "linux", chrome |-> TRUE]
    /\ pc = "rendered"
    /\ htmlContent = Undefined
    /\ pdfTitle = <<>>
    /\ elements \in ListsUpTo(RenderedElements, MaxElems)
    /\ bodyBottom \in BodyBottoms
    /\ Idle

\* The function page.evaluate runs in the page, on the rendered elements
MeasureRendered ==
    /\ pc = "rendered"
    /\ contentHeight' = Num(MeasureHeight(elements, bodyBottom))
    /\ pc' = "measured"
    /\ UNCHANGED <<env, browser, page, htmlContent, selection, finalHtmlContent, steps,
                   imagesTimedOut, elements, bodyBottom, pdf, stdout, stderr, failedAt,
                   handlerRan, exitCode>>

\* The same function run again after one more visible element with content
\* has been appended to the document
AppendAndMeasure ==
    /\ pc = "measured"
    /\ \E el \in ContentElements :
            /\ elements' = Append(elements, el)
            /\ contentHeight' = Num(MeasureHeight(Append(elements, el), bodyBottom))
    /\ pc' = "remeasured"
    /\ UNCHANGED <<env, browser, page, htmlContent, selection, finalHtmlContent, steps,
                   imagesTimedOut, bodyBottom, pdf, stdout, stderr, failedAt,
                   handlerRan, exitCode>>

NextMeasure == MeasureRendered \/ AppendAndMeasure

SpecMeasure == InitMeasure /\ [][NextMeasure]_vars

-----------------------------------------------------------------------------
(* Claims.                                                                 *)

Range(seq) == {seq[i] : i \in DOMAIN seq}

IsObject == argv2.kind = "object"

\* C1: on every outcome of a run, a browser that was launched has been closed
\* (browser.close() performed) by the time the process has terminated.
C1_BrowserClosedBeforeExit ==
    (pc = "exited" /\ browser # "none") => browser = "closed"

\* C2: every fatal failure is caught by the script's top-level handler, logged
\* to the error stream and ends the process with exit code 1; exit code 0 with
\* the success message occurs only when the PDF export completed.
C2_FailuresCaughtAtTopLevel ==
    /\ (pc = "exited" /\ failedAt # "none") =>
            (handlerRan /\ stderr # <<>> /\ exitCode = Num(1))
    /\ (exitCode = Num(0) /\ SuccessMessage(script) \in Range(stdout)) => pdf # NoPdf

\* C3: when the JSON argument is malformed the run ends at the parse with exit
\* code 1; the browser is never launched and page.pdf is never invoked, so no
\* output file is created.
C3_MalformedJsonExitsOneNoOutput ==
    argv2.kind = "malformed" =>
        /\ pc \in {"parse", "exited"}
        /\ browser = "none"
        /\ "launch" \notin Range(steps)
        /\ pdf = NoPdf
        /\ pc = "exited" => (exitCode = Num(1) /\ stderr # <<>>)

C3_Witness ==
    argv2.kind = "malformed" /\ pc = "exited" /\ exitCode = Num(1)

\* C4: with desktop view type and the default width (no deviceWidth supplied,
\* or the default supplied) the selected width is the default 600 px, it is
\* classified as Desktop and not as Custom, and the PDF page width is 600/96 in.
C4_DesktopDefaultWidth ==
    ( /\ script \in Detailed
      /\ IsObject
      /\ args.viewType \in {Undefined, Str(<<"desktop">>)}
      /\ args.deviceWidth \in {Undefined, Num(defaultDesktopWidth)}
      /\ viewports # <<>> ) =>
        /\ viewportWidth = Num(600)
        /\ viewports[1].width = Num(600)
        /\ pdfTitle = DesktopTitle
        /\ pdf # NoPdf => pdf.width = Length(Num(600), 96, "in")

\* C5 (as stated): in the scripts the claim is drawn from, when viewType is
\* 'mobile' every viewport set has the fixed mobile width of 360 px and mobile
\* emulation on, whatever deviceWidth is supplied, and both the initial and the
\* resized viewport are set before the export.
C5_MobileWidthFixed ==
    ( /\ script \in {"part_000", "mobile"}
      /\ IsObject
      /\ args.viewType = Str(<<"mobile">>)
      /\ args.deviceWidth # Undefined ) =>
        /\ \A i \in DOMAIN viewports :
                viewports[i].width = Num(360) /\ viewports[i].isMobile
        /\ pdf # NoPdf => Len(viewports) = 2

\* C5 (amended): in the scripts that select the width from viewType (part_000
\* and the Chrome-path script), when viewType is 'mobile' every viewport set has
\* width 360 px and mobile emulation on, whatever deviceWidth is, and both the
\* initial and the resized viewport are set before the export; the
\* always-mobile script ignores viewType: it sets one viewport only, with mobile
\* emulation on and with width parseInt(deviceWidth).
C5_MobileWidthFixedWhereSelected ==
    /\ (script \in Detailed /\ IsObject /\ args.viewType = Str(<<"mobile">>)) =>
            /\ \A i \in DOMAIN viewports :
                    viewports[i].width = Num(360) /\ viewports[i].isMobile
            /\ pdf # NoPdf => Len(viewports) = 2
    /\ (script = "mobile" /\ IsObject) =>
            /\ Len(viewports) <= 1
            /\ \A i \in DOMAIN viewports :
                    /\ viewports[i].width = ParseInt(args.deviceWidth)
                    /\ viewports[i].isMobile

C5_Witness ==
    /\ script \in Detailed
    /\ IsObject
    /\ args.viewType = Str(<<"mobile">>)
    /\ args.deviceWidth = Num(320)
    /\ Len(viewports) = 2
    /\ pdf # NoPdf

HeadOpen == <<"<head">>          \* a <head> tag, with or without attributes
TitleOpen == <<"<title">>        \* a <title> tag, with or without attributes

\* C6: for markup without an <html> tag, the normalised document holds exactly
\* one <html> tag, exactly one <head> tag and exactly one viewport meta tag.
C6_FragmentHasOneHtmlHeadMeta ==
    (pc = "normalised" /\ ~Includes(htmlContent.v, HtmlOpen)) =>
        /\ Count(finalHtmlContent.v, HtmlOpen) = 1
        /\ Count(finalHtmlContent.v, HeadOpen) = 1
        /\ Count(finalHtmlContent.v, MetaViewportOpen) = 1

\* Occurrences after "insert one when absent, add none when present"
Ensured(n) == IF n = 0 THEN 1 ELSE n

\* C7: for any markup, the normalised document holds a viewport meta tag and
\* a <title> element, each as often as without duplication: one is inserted
\* when the input has none, none is added when the input has one.
C7_ViewportAndTitleEnsured ==
    pc = "normalised" =>
        /\ Count(finalHtmlContent.v, MetaViewportOpen)
                = Ensured(Count(htmlContent.v, MetaViewportOpen))
        /\ Count(finalHtmlContent.v, TitleOpen)
                = Ensured(Count(htmlContent.v, TitleOpen))

\* C8: a timeout of the image wait never aborts the run: it is logged, the run
\* goes on to the measurement, the resize and the export as it does when the
\* wait succeeds, and ends with exit code 0 when those steps succeed.
C8_ImageTimeoutNotFatal ==
    /\ failedAt # "waitForFunction"
    /\ imagesTimedOut =>
            /\ "Some images might not have loaded within timeout." \in Range(stdout)
            /\ "waitForFunction" \in Range(steps)
            /\ stderr = <<>> \/ failedAt # "none"
    /\ (script \in Detailed /\ pc = "exited" /\ failedAt = "none") =>
            /\ steps = Flow(script)
            /\ Len(viewports) = 2
            /\ pdf # NoPdf
            /\ exitCode = Num(0)

C8_Witness ==
    /\ imagesTimedOut
    /\ pc = "exited"
    /\ exitCode = Num(0)
    /\ pdf # NoPdf
    /\ SubSeq(steps, Len(steps) - 2, Len(steps)) = <<"measure", "resize", "pdf">>

\* The test the claims state for an element that counts: not hidden by
\* display, visibility or opacity, and with text, a loaded image or a
\* background image
Qualifies(el) ==
    /\ el.display # "none" /\ el.visibility # "hidden" /\ el.opacity # "0"
    /\ \/ el.text
       \/ el.tagName = "IMG" /\ el.complete
       \/ el.backgroundImage \notin {"", "none"}

Qualifying == {i \in DOMAIN elements : Qualifies(elements[i])}
QualifyingBelowTop == {i \in Qualifying : elements[i].bottom > 0}

\* Math.ceil(bottom + margin) for element i, as the claims state it
HeightAt(i) ==
    CeilHalf(elements[i].bottom + 2 * MarginBottomPx(elements[i]))

\* C9: appending one more visible, content-bearing element to the elements
\* never makes the measured height smaller than it was before the append.
C9_AppendNeverLowersHeight ==
    [][(pc = "measured" /\ pc' = "remeasured") => contentHeight'.v >= contentHeight.v]_vars

Pos(step) ==
    IF step \in Range(steps) THEN CHOOSE i \in DOMAIN steps : steps[i] = step ELSE 0

\* The steps of `order` complete in that order and none starts (the run is at
\* it, or it has completed) before the one ahead of it has completed
InOrder(order) ==
    \A k \in 1..(Len(order) - 1) :
        /\ (pc = order[k + 1] \/ Pos(order[k + 1]) # 0) => Pos(order[k]) # 0
        /\ Pos(order[k + 1]) # 0 => Pos(order[k]) < Pos(order[k + 1])

\* C11 (as stated): in every run of the detailed scripts the suspension points
\* come in the order content load, font wait, image wait, settle delay,
\* measurement, viewport resize, PDF export, and none starts before the one
\* ahead of it has finished.
C11_FontsThenImages ==
    script \in Detailed =>
        InOrder(<< "setContent", "fonts", "waitForFunction", "settle", "measure",
                   "resize", "pdf" >>)

\* C11 (amended): in every run of the detailed scripts the suspension points
\* come in the order content load, image wait, font wait, settle delay,
\* measurement, viewport resize, PDF export, and none starts before the one
\* ahead of it has finished.
C11_ImagesThenFonts ==
    script \in Detailed =>
        InOrder(<< "setContent", "waitForFunction", "fonts", "settle", "measure",
                   "resize", "pdf" >>)

C11_Witness ==
    /\ script \in Detailed
    /\ pc = "exited"
    /\ Pos("pdf") # 0
    /\ Pos("waitForFunction") + 1 = Pos("fonts")
    /\ Len(viewports) = 2

====
